---- MODULE Spec2Model ----
(***************************************************************************)
(* daily-journal-sync (src/main.py): `add` drops one line into the named   *)
(* pipe /tmp/djs_queue; the daemon's reader loop moves lines from the pipe *)
(* into an mp.Queue; the writer process appends them to entries/<day>.md,  *)
(* rolls the file over at midnight and spawns push.sh once the file has    *)
(* reached 10 KiB.                                                         *)
(*                                                                         *)
(* Text is a sequence of one-character strings, so that strip() and the    *)
(* reader's line splitting are computed, not assumed.  Fields marked       *)
(* (ghost) record history for the properties and are never read by the     *)
(* actions.                                                                *)
(*                                                                         *)
(* Scope: one daemon runs at a time; it is started without --with-weather  *)
(* (the default), so headers carry no weather line; an `add` writes its    *)
(* payload with one write(), which a FIFO takes atomically.  Spec is the   *)
(* program with its clock, its users and Ctrl-C; SpecFault adds exceptions *)
(* inside the writer's try block; SpecChannel adds errors in reading the   *)
(* channel; SpecAnyPath starts with any kind of object at the FIFO path;   *)
(* SpecTamper adds other hands removing or emptying the current entry      *)
(* file.  A push.sh child, once spawned, runs forever.                     *)
(***************************************************************************)
EXTENDS Integers, Sequences, FiniteSets, TLC

\* ---------------------------------------------------------------- bounds
MaxDay    == 2      \* days the clock can reach
MaxAdds   == 2      \* `add` invocations in one behaviour
MaxStarts == 2      \* `start` invocations in one behaviour

Days   == 1..MaxDay
AddIds == 1..MaxAdds

\* ------------------------------------------------------ program constants
SIZE_LIMIT     == 10240   \* writer_loop: SIZE_LIMIT = 10_240
HeadingLen     == 13      \* len("# YYYY-MM-DD\n")
SeparatorLen   == 6       \* len("\n---\n\n")
EntryFixedLen  == 9       \* len("- HH:MM ") + len("\n")

NL == "\n"
SP == " "
Whitespace == {SP, NL}

\* Messages a user passes to `add`: padded, blank, and multi-line.
Messages ==
    { <<SP, "b", SP>>, <<SP>>, <<"a", NL, "b">> }

\* Bytes of older entries already in today's file when the behaviour starts.
\* 13 + 6 + 10211 + 10 = 10240: one short entry lands exactly on the limit.
BaseSizes == {0, 10211}

Repo == "repo"
PathFor(d) == <<Repo, "entries", d>>     \* repo_dir / "entries" / "<d>.md"

\* ------------------------------------------------------------- str.strip
RECURSIVE LStrip(_)
LStrip(s) ==
    IF s # <<>> /\ Head(s) \in Whitespace THEN LStrip(Tail(s)) ELSE s

RECURSIVE RStrip(_)
RStrip(s) ==
    IF s # <<>> /\ s[Len(s)] \in Whitespace
    THEN RStrip(SubSeq(s, 1, Len(s) - 1)) ELSE s

Strip(s) == RStrip(LStrip(s))

\* Index of the first newline of s (0 when there is none).
RECURSIVE FirstNL(_, _)
FirstNL(s, i) ==
    IF i > Len(s) THEN 0
    ELSE IF s[i] = NL THEN i ELSE FirstNL(s, i + 1)

\* ------------------------------------------------------------ entry files
NoFile == [ex |-> FALSE, base |-> 0, items |-> <<>>]

\* The header of a daemon started without --with-weather (the default):
\* "# <day>\n" and "\n---\n\n".
HeaderItem(d) ==
    [k |-> "H", day |-> d, txt |-> <<>>, id |-> 0, rseq |-> 0]

\* day is the date of the clock reading that produced HH:MM (ghost);
\* id and rseq name the `add` call and the channel read (ghost).
EntryItem(m, tsDay) ==
    [k |-> "E", day |-> tsDay, txt |-> m.txt, id |-> m.id, rseq |-> m.rseq]

ItemSize(it) ==
    IF it.k = "H"
    THEN HeadingLen + SeparatorLen
    ELSE EntryFixedLen + Len(it.txt)

RECURSIVE ItemsSize(_)
ItemsSize(s) == IF s = <<>> THEN 0 ELSE ItemSize(Head(s)) + ItemsSize(Tail(s))

\* md_path.stat().st_size
Size(f) == f.base + ItemsSize(f.items)

\* The guard of write_header_if_new: the file exists and is not empty.
HeaderPresent(f) == f.ex /\ Size(f) > 0

\* Mutant of WriteHeaderIfNew: the exists-and-not-empty guard is missing.
WriteHeaderIfNew_always(fs, d) ==
    [fs EXCEPT ![d] = [ex |-> TRUE, base |-> 0, items |-> <<HeaderItem(d)>>]]

\* write_header_if_new(md_path, with_weather=False, ...): write_text replaces
\* whatever the file held.
WriteHeaderIfNew(fs, d) ==
    IF HeaderPresent(fs[d]) THEN fs
    ELSE [fs EXCEPT ![d] = [ex |-> TRUE, base |-> 0,
                            items |-> <<HeaderItem(d)>>]]

\* Mutant of AppendEntry: the entry goes to the file of its timestamp's day.
AppendEntry_byStamp(fs, d, m, tsDay) ==
    [fs EXCEPT ![tsDay] = [ex |-> TRUE, base |-> @.base,
                           items |-> Append(@.items, EntryItem(m, tsDay))]]

\* append_entry(md_path, message): open(md_path, "a") creates the file.
AppendEntry(fs, d, m, tsDay) ==
    [fs EXCEPT ![d] = [ex |-> TRUE, base |-> @.base,
                       items |-> Append(@.items, EntryItem(m, tsDay))]]

\* Mutant of SizeReached: a file of exactly SIZE_LIMIT bytes is not pushed.
SizeReached_gt(f) == Size(f) > SIZE_LIMIT

\* The push condition of writer_loop.
SizeReached(f) == Size(f) >= SIZE_LIMIT


\* ------------------------------------------------------------------ state
VARIABLES
    node,         \* what /tmp/djs_queue is, one of NodeKinds
    pipe,         \* the FIFO's buffer: chunks [data, id] in write order
    scriptExists, \* repo_dir / "push.sh" exists
    today,        \* the date datetime.now() returns
    files,        \* entries/<d>.md for every day d
    rpc,          \* start_daemon: where the main process is
    starts,       \* `start` invocations so far
    q,            \* the mp.Queue: items [txt, id, rseq]
    wpc,          \* writer_loop: where the writer process is
    mdPath,       \* writer_loop's md_path, as the day it names
    cur,          \* writer_loop's m, with the sizes around its append (ghost)
    prod,         \* the `add` processes
    nread,        \* lines read from the channel so far (ghost)
    calls,        \* fork_and_push calls so far (ghost)
    errs,         \* "writer error" log records so far (ghost)
    rerrs,        \* "fifo read error" log records so far (ghost)
    pending       \* the queue as it was when the interrupt was handled (ghost)

vars == <<node, pipe, scriptExists, today, files, rpc, starts,
          q, wpc, mdPath, cur, prod, nread, calls, errs, rerrs, pending>>

\* What the path /tmp/djs_queue can hold: nothing, a FIFO, a regular file,
\* a directory, a symbolic link to nowhere.
NodeKinds == {"absent", "fifo", "file", "dir", "dangling"}

\* os.path.exists(path): follows symbolic links.
PathExists(n) == n \notin {"absent", "dangling"}

NoMsg == [txt |-> <<>>, id |-> 0, rseq |-> 0, pre |-> 0, post |-> 0]
Idle  == [pc |-> "idle", msg |-> <<>>, prior |-> {}]

\* Where an `add` process is once it has ended.
Ended == {"added", "addedFile", "exit2", "epipe", "eisdir"}

\* The main process holds, or is opening, the read end of the FIFO.
Readers == IF rpc \in {"opening", "open", "eof"} THEN 1 ELSE 0

\* `add` processes that hold, or are opening, the write end of the FIFO.
Writers ==
    Cardinality({i \in AddIds : \/ prod[i].pc = "wopen"
                                \/ prod[i].pc = "opening" /\ node = "fifo"})

\* The daemon is in its read loop.
Listening == rpc \in {"closed", "opening", "open", "eof"}

\* The kernel frees a FIFO's buffer when its last end is closed.
Released(p, readers, writers) == IF readers = 0 /\ writers = 0 THEN <<>> ELSE p

Init ==
    /\ node \in {"absent", "file"}
    /\ pipe = <<>>
    /\ scriptExists \in BOOLEAN
    /\ today = 1
    /\ \E f \in {NoFile, [NoFile EXCEPT !.ex = TRUE]}
               \cup {[ex |-> TRUE, base |-> b,
                      items |-> <<HeaderItem(1)>>] : b \in BaseSizes} :
          files = [d \in Days |-> IF d = 1 THEN f ELSE NoFile]
    /\ rpc = "off"
    /\ starts = 0
    /\ q = <<>>
    /\ wpc = "dead"
    /\ mdPath = 1
    /\ cur = NoMsg
    /\ prod = [i \in AddIds |-> Idle]
    /\ nread = 0
    /\ calls = <<>>
    /\ errs = <<>>
    /\ rerrs = <<>>
    /\ pending = <<>>

\* ------------------------------------------------------------ environment
\* Local midnight passes.
Midnight ==
    /\ today < MaxDay
    /\ today' = today + 1
    /\ UNCHANGED <<node, pipe, scriptExists, files, rpc, starts,
                   q, wpc, mdPath, cur, prod, nread, calls, errs, rerrs, pending>>

\* ------------------------------------------------------------- `add`
\* add_note up to the open() call: exit code 2 when the path is missing.
\* prior names the `add` calls that had ended when this one began (ghost).
AddCheck(i, m) ==
    /\ prod[i].pc = "idle"
    /\ \A j \in AddIds : j < i => prod[j].pc # "idle"
    /\ prod' = [prod EXCEPT ![i] =
                  [pc    |-> IF ~PathExists(node) THEN "exit2" ELSE "opening",
                   msg   |-> m,
                   prior |-> {j \in AddIds : prod[j].pc \in Ended}]]
    /\ UNCHANGED <<node, pipe, scriptExists, today, files, rpc,
                   starts, q, wpc, mdPath, cur, nread, calls, errs, rerrs, pending>>

\* open(FIFO_PATH, "w") returns: on a FIFO once a reader is there, on any
\* other file at once.
AddOpen(i) ==
    /\ prod[i].pc = "opening"
    /\ \/ node = "fifo" /\ Readers > 0
          /\ prod' = [prod EXCEPT ![i].pc = "wopen"]
       \/ node = "file"
          /\ prod' = [prod EXCEPT ![i].pc = "fopen"]
    /\ UNCHANGED <<node, pipe, scriptExists, today, files, rpc,
                   starts, q, wpc, mdPath, cur, nread, calls, errs, rerrs, pending>>

\* The text add_note writes.
Payload(m) == Append(Strip(m), NL)

\* fifo.write(...), close, print("Added."): with no reader the write raises
\* BrokenPipeError and the process ends with a traceback.  "added" and
\* "addedFile" both are exit code 0 after "Added."; the second wrote into a
\* regular file that /tmp/djs_queue was.
AddWrite(i) ==
    /\ \/ /\ prod[i].pc = "wopen"
          /\ Readers > 0
          /\ pipe' = Append(pipe, [data |-> Payload(prod[i].msg), id |-> i])
          /\ prod' = [prod EXCEPT ![i].pc = "added"]
       \/ /\ prod[i].pc = "wopen"
          /\ Readers = 0
          /\ pipe' = Released(pipe, 0, Writers - 1)
          /\ prod' = [prod EXCEPT ![i].pc = "epipe"]
       \/ /\ prod[i].pc = "fopen"
          /\ pipe' = pipe
          /\ prod' = [prod EXCEPT ![i].pc = "addedFile"]
    /\ UNCHANGED <<node, scriptExists, today, files, rpc, starts,
                   q, wpc, mdPath, cur, nread, calls, errs, rerrs, pending>>

\* ------------------------------------------------- start_daemon, main process
\* `start`: the writer process is spawned, then the FIFO is ensured.
DaemonStart ==
    /\ rpc = "off"
    /\ starts < MaxStarts
    /\ starts' = starts + 1
    /\ rpc' = "ensure"
    /\ wpc' = "init"
    /\ q' = <<>>
    /\ cur' = NoMsg
    /\ UNCHANGED <<node, pipe, scriptExists, today, files, mdPath, prod,
                   nread, calls, errs, rerrs, pending>>

\* ensure_fifo(FIFO_PATH) raises: os.remove() of a directory, os.mkfifo()
\* on a path that a symbolic link occupies.
EnsureFifoRaises(n) ==
    IF PathExists(n)
    THEN n # "fifo" /\ n = "dir"
    ELSE n # "absent"

\* ensure_fifo(FIFO_PATH): what the path holds afterwards.
EnsureFifoResult(n) ==
    IF EnsureFifoRaises(n) THEN n
    ELSE IF PathExists(n)
         THEN (IF n # "fifo" THEN "fifo" ELSE n)
         ELSE "fifo"

EnsureFifo ==
    /\ rpc = "ensure"
    /\ ~EnsureFifoRaises(node)
    /\ node' = EnsureFifoResult(node)
    /\ rpc' = "closed"
    /\ UNCHANGED <<pipe, scriptExists, today, files, starts, q,
                   wpc, mdPath, cur, prod, nread, calls, errs, rerrs, pending>>

\* The reader loop enters open(FIFO_PATH, "r").
ReaderBeginOpen ==
    /\ rpc = "closed"
    /\ rpc' = "opening"
    /\ UNCHANGED <<node, pipe, scriptExists, today, files, starts,
                   q, wpc, mdPath, cur, prod, nread, calls, errs, rerrs, pending>>

\* open() returns once a writer has opened the FIFO.
ReaderOpened ==
    /\ rpc = "opening"
    /\ Writers > 0 \/ pipe # <<>>
    /\ rpc' = "open"
    /\ UNCHANGED <<node, pipe, scriptExists, today, files, starts,
                   q, wpc, mdPath, cur, prod, nread, calls, errs, rerrs, pending>>

\* The next line of the channel: the text before the first newline.
NextLine(p) == SubSeq(Head(p).data, 1, FirstNL(Head(p).data, 1) - 1)

\* The channel without that line.
DropLine(p) ==
    LET d    == Head(p).data
        rest == SubSeq(d, FirstNL(d, 1) + 1, Len(d))
    IN  IF rest = <<>> THEN Tail(p)
        ELSE <<[data |-> rest, id |-> Head(p).id]>> \o Tail(p)

\* Mutant of QPut: the item goes to the head of the queue.
QPut_front(qq, x) == <<x>> \o qq

\* q.put(x)
QPut(qq, x) == Append(qq, x)

\* for line in fifo: q.put(line.strip())
ReaderLine ==
    /\ rpc = "open"
    /\ pipe # <<>>
    /\ nread' = nread + 1
    /\ q' = QPut(q, [txt |-> Strip(NextLine(pipe)), id |-> Head(pipe).id,
                     rseq |-> nread + 1])
    /\ pipe' = DropLine(pipe)
    /\ UNCHANGED <<node, scriptExists, today, files, rpc, starts,
                   wpc, mdPath, cur, prod, calls, errs, rerrs, pending>>

\* read() returns no bytes: every writer has closed and the buffer is empty.
ReaderEof ==
    /\ rpc = "open"
    /\ pipe = <<>>
    /\ Writers = 0
    /\ rpc' = "eof"
    /\ UNCHANGED <<node, pipe, scriptExists, today, files, starts,
                   q, wpc, mdPath, cur, prod, nread, calls, errs, rerrs, pending>>

\* The with block closes the read end; the loop goes round.
ReaderClose ==
    /\ rpc = "eof"
    /\ rpc' = "closed"
    /\ pipe' = Released(pipe, 0, Writers)
    /\ UNCHANGED <<node, scriptExists, today, files, starts, q,
                   wpc, mdPath, cur, prod, nread, calls, errs, rerrs, pending>>

\* KeyboardInterrupt in the read loop: break, then p.join(timeout=2).  A
\* Ctrl-C on the terminal reaches the writer process too (both), a signal
\* sent to the main process alone does not.
Interrupt(both) ==
    /\ Listening
    /\ rpc' = "joining"
    /\ pipe' = Released(pipe, 0, Writers)
    /\ wpc' = IF both THEN "dead" ELSE wpc
    /\ pending' = q
    /\ UNCHANGED <<node, scriptExists, today, files, starts, q,
                   mdPath, cur, prod, nread, calls, errs, rerrs>>

\* Mutant of WriterAtExit: the writer process outlives the main process.
WriterAtExit_orphan(w) == w

\* mp.Process(..., daemon=True): a writer that is still alive when the main
\* process exits is terminated.
WriterAtExit(w) == "dead"

\* p.join(timeout=2) has returned and the main process exits; the queue
\* goes with it.
DaemonExit ==
    /\ rpc = "joining"
    /\ rpc' = "off"
    /\ wpc' = WriterAtExit(wpc)
    /\ q' = <<>>
    /\ pending' = <<>>
    /\ UNCHANGED <<node, pipe, scriptExists, today, files, starts,
                   mdPath, cur, prod, nread, calls, errs, rerrs>>

\* ------------------------------------------------- writer_loop, writer process
\* md_path = md_path_for_today(repo_dir); write_header_if_new(md_path, ...)
WriterInit ==
    /\ wpc = "init"
    /\ mdPath' = today
    /\ files' = WriteHeaderIfNew(files, today)
    /\ wpc' = "get"
    /\ UNCHANGED <<node, pipe, scriptExists, today, rpc, starts,
                   q, cur, prod, nread, calls, errs, rerrs, pending>>

\* Mutant of QGetIndex: the newest item is delivered first.
QGetIndex_lifo(qq) == Len(qq)

\* q.get() delivers the oldest item.
QGetIndex(qq) == 1

QWithout(qq, i) == SubSeq(qq, 1, i - 1) \o SubSeq(qq, i + 1, Len(qq))

\* Mutant of Discarded: the emptiness test is missing.
Discarded_never(txt) == FALSE

\* m = msg.strip(); if not m: continue
Discarded(txt) == Strip(txt) = <<>>

\* Mutant of MdPathAfter: md_path is not switched on a new day.
MdPathAfter_stale(day, md) == md

\* today_path != md_path, and the md_path the iteration goes on with.
MdPathAfter(day, md) == IF day # md THEN day ELSE md

\* The header writes of one iteration: on rollover, and when the file is gone.
EnsureHeaders(fs, day, md) ==
    LET f1 == IF day # md THEN WriteHeaderIfNew(fs, day) ELSE fs
        p  == MdPathAfter(day, md)
    IN  IF ~f1[p].ex THEN WriteHeaderIfNew(f1, p) ELSE f1

\* One iteration up to the append: dequeue, strip, discard or roll over.
WriterGet ==
    /\ wpc = "get"
    /\ q # <<>>
    /\ LET i    == QGetIndex(q)
           item == q[i]
       IN  /\ q' = QWithout(q, i)
           /\ IF Discarded(item.txt)
              THEN UNCHANGED <<wpc, mdPath, files, cur>>
              ELSE /\ wpc' = "append"
                   /\ mdPath' = MdPathAfter(today, mdPath)
                   /\ files' = EnsureHeaders(files, today, mdPath)
                   /\ cur' = [txt |-> Strip(item.txt), id |-> item.id,
                              rseq |-> item.rseq,
                              pre |-> Size(files'[mdPath']), post |-> 0]
    /\ UNCHANGED <<node, pipe, scriptExists, today, rpc, starts,
                   prod, nread, calls, errs, rerrs, pending>>

\* append_entry(md_path, m): the timestamp is read from the clock here.
WriterAppend ==
    /\ wpc = "append"
    /\ files' = AppendEntry(files, mdPath, cur, today)
    /\ cur' = [cur EXCEPT !.post = Size(files'[mdPath])]
    /\ wpc' = "size"
    /\ UNCHANGED <<node, pipe, scriptExists, today, rpc, starts,
                   q, mdPath, prod, nread, calls, errs, rerrs, pending>>

\* Mutant of PushArgs: the two arguments change places.
PushArgs_swapped(repo, md) == <<PathFor(md), repo>>

\* The argument list push.sh is started with.
PushArgs(repo, md) == <<repo, PathFor(md)>>

\* fork_and_push(repo_dir, md_path): the child is spawned only when push.sh
\* exists; nothing waits for it.
ForkAndPush(md, m) ==
    [args |-> PushArgs(Repo, md), rseq |-> m.rseq, spawned |-> scriptExists]

\* Mutant of WriterAfterPush: the parent waits for the child it spawned.
WriterAfterPush_wait(call) == IF call.spawned THEN "wait" ELSE "get"

\* Where the writer is after fork_and_push: the parent falls out of the
\* function after os.fork(), or after the push.sh-not-found log line; no
\* waitpid anywhere.  A child that was spawned is never heard of again: in
\* this model it runs forever.
WriterAfterPush(call) == "get"

\* Mutant of PushDue: a file that was at the limit before the append is
\* not pushed again.
PushDue_once(f, m) == SizeReached(f) /\ m.pre < SIZE_LIMIT

\* The test before fork_and_push, made after the append of message m: the
\* size alone decides, nothing remembers an earlier push.
PushDue(f, m) == SizeReached(f)

\* if md_path.stat().st_size >= SIZE_LIMIT: fork_and_push(...).  stat() of a
\* missing file raises; the except clause logs it and the loop goes on.
WriterSize ==
    /\ wpc = "size"
    /\ calls' = IF files[mdPath].ex /\ PushDue(files[mdPath], cur)
                THEN Append(calls, ForkAndPush(mdPath, cur))
                ELSE calls
    /\ wpc' = IF calls' # calls
              THEN WriterAfterPush(calls'[Len(calls')])
              ELSE "get"
    /\ cur' = NoMsg
    /\ UNCHANGED <<node, pipe, scriptExists, today, files, rpc,
                   starts, q, mdPath, prod, nread, errs, rerrs, pending>>

\* ------------------------------------------------ errors inside the try block
MaxErrs == 1      \* writer errors in one behaviour

\* Mutant of WriterAfterError: the exception ends the writer process.
WriterAfterError_crash == "dead"

\* except Exception as e: log.exception(...); the while loop goes on.
WriterAfterError == "get"

\* write_text that fails leaves the file as it was, or created and empty.
FailedWrite(fs, d) ==
    {fs, [fs EXCEPT ![d] = [ex |-> TRUE, base |-> 0, items |-> <<>>]]}

\* An exception in one step of an iteration: "resolve" is md_path_for_today,
\* "header" a write_header_if_new that has a header to write, "append" is
\* append_entry, "size" is stat() or os.fork().  The message is dropped.
WriterError(step) ==
    /\ Len(errs) < MaxErrs
    /\ \/ /\ step \in {"resolve", "header"}
          /\ wpc = "get"
          /\ q # <<>>
          /\ ~Discarded(q[QGetIndex(q)].txt)
          /\ q' = QWithout(q, QGetIndex(q))
          /\ errs' = Append(errs, [rseq |-> q[QGetIndex(q)].rseq,
                                   step |-> step])
          /\ IF step = "resolve"
             THEN UNCHANGED <<mdPath, files>>
             ELSE /\ EnsureHeaders(files, today, mdPath) # files
                  /\ mdPath' = MdPathAfter(today, mdPath)
                  /\ files' \in FailedWrite(files, mdPath')
       \/ /\ step \in {"append", "size"}
          /\ wpc = step
          /\ errs' = Append(errs, [rseq |-> cur.rseq, step |-> step])
          /\ UNCHANGED <<q, mdPath, files>>
    /\ wpc' = WriterAfterError
    /\ cur' = NoMsg
    /\ UNCHANGED <<node, pipe, scriptExists, today, rpc, starts, prod, nread,
                   calls, rerrs, pending>>

\* ------------------------------------------- other objects at the FIFO path
\* ensure_fifo raises: nothing in start_daemon catches it, the main process
\* ends with a traceback and the writer it has started goes with it.
EnsureFifoFails ==
    /\ rpc = "ensure"
    /\ EnsureFifoRaises(node)
    /\ node' = EnsureFifoResult(node)
    /\ rpc' = "off"
    /\ wpc' = WriterAtExit(wpc)
    /\ q' = <<>>
    /\ UNCHANGED <<pipe, scriptExists, today, files, starts, mdPath, cur,
                   prod, nread, calls, errs, rerrs, pending>>

\* add_note: open(FIFO_PATH, "w") of a directory raises IsADirectoryError.
AddOpenFails(i) ==
    /\ prod[i].pc = "opening"
    /\ node = "dir"
    /\ prod' = [prod EXCEPT ![i].pc = "eisdir"]
    /\ UNCHANGED <<node, pipe, scriptExists, today, files, rpc, starts, q,
                   wpc, mdPath, cur, nread, calls, errs, rerrs, pending>>

\* The state before anything runs, with any object at the FIFO path.
InitAnyPath ==
    /\ node \in NodeKinds
    /\ pipe = <<>>
    /\ scriptExists \in BOOLEAN
    /\ today = 1
    /\ files = [d \in Days |-> NoFile]
    /\ rpc = "off"
    /\ starts = 0
    /\ q = <<>>
    /\ wpc = "dead"
    /\ mdPath = 1
    /\ cur = NoMsg
    /\ prod = [i \in AddIds |-> Idle]
    /\ nread = 0
    /\ calls = <<>>
    /\ errs = <<>>
    /\ rerrs = <<>>
    /\ pending = <<>>

\* ------------------------------------------ other hands on the entry files
\* The writer is in its loop and the main process in its own.
Serving == Listening /\ wpc \in {"get", "append", "size"}

\* Someone removes the writer's current entry file while the daemon runs.
ExternalDelete ==
    /\ Serving
    /\ files[mdPath].ex
    /\ files' = [files EXCEPT ![mdPath] = NoFile]
    /\ UNCHANGED <<node, pipe, scriptExists, today, rpc, starts, q, wpc,
                   mdPath, cur, prod, nread, calls, errs, rerrs, pending>>

\* Someone truncates the writer's current entry file to zero bytes.
ExternalTruncate ==
    /\ Serving
    /\ files[mdPath].ex
    /\ Size(files[mdPath]) > 0
    /\ files' = [files EXCEPT ![mdPath] =
                    [ex |-> TRUE, base |-> 0, items |-> <<>>]]
    /\ UNCHANGED <<node, pipe, scriptExists, today, rpc, starts, q, wpc,
                   mdPath, cur, prod, nread, calls, errs, rerrs, pending>>

\* ------------------------------------------------ errors in the reader loop
MaxRErrs == 1     \* channel read errors in one behaviour

\* except Exception as e: log.exception(...); time.sleep(1), then the while
\* loop goes round to open() again.
ReaderAfterError == "sleep"

\* `add` calls that have started.
Started == Cardinality({i \in AddIds : prod[i].pc # "idle"})

\* What the channel holds after a read that raised: the read may have taken
\* the bytes it failed on, and leaving the with block closes the read end.
AfterFailedRead(p, writers) ==
    {Released(x, 0, writers) :
        x \in {p} \cup (IF p # <<>> THEN {DropLine(p)} ELSE {})}

\* An exception other than KeyboardInterrupt inside `for line in fifo`.
ReaderError ==
    /\ rpc = "open"
    /\ Len(rerrs) < MaxRErrs
    /\ rerrs' = Append(rerrs, [started |-> Started, nread |-> nread])
    /\ pipe' \in AfterFailedRead(pipe, Writers)
    /\ rpc' = ReaderAfterError
    /\ UNCHANGED <<node, scriptExists, today, files, starts, q, wpc,
                   mdPath, cur, prod, nread, calls, errs, pending>>

\* time.sleep(1) returns.
ReaderWake ==
    /\ rpc = "sleep"
    /\ rpc' = "closed"
    /\ UNCHANGED <<node, pipe, scriptExists, today, files, starts, q, wpc,
                   mdPath, cur, prod, nread, calls, errs, rerrs, pending>>

\* KeyboardInterrupt during time.sleep(1): raised inside the except clause,
\* it is caught by nothing; the main process ends with a traceback and the
\* daemonic writer process is terminated with it.
SleepInterrupt ==
    /\ rpc = "sleep"
    /\ rpc' = "off"
    /\ wpc' = WriterAtExit(wpc)
    /\ q' = <<>>
    /\ UNCHANGED <<node, pipe, scriptExists, today, files, starts,
                   mdPath, cur, prod, nread, calls, errs, rerrs, pending>>

\* --------------------------------------------------------- specifications
Next ==
    \/ Midnight
    \/ \E i \in AddIds, m \in Messages : AddCheck(i, m)
    \/ \E i \in AddIds : AddOpen(i)
    \/ \E i \in AddIds : AddWrite(i)
    \/ DaemonStart
    \/ EnsureFifo
    \/ ReaderBeginOpen
    \/ ReaderOpened
    \/ ReaderLine
    \/ ReaderEof
    \/ ReaderClose
    \/ \E both \in BOOLEAN : Interrupt(both)
    \/ DaemonExit
    \/ WriterInit
    \/ WriterGet
    \/ WriterAppend
    \/ WriterSize

Spec == Init /\ [][Next]_vars

\* The program with I/O errors in the writer.
NextFault ==
    \/ Next
    \/ \E step \in {"resolve", "header", "append", "size"} : WriterError(step)

SpecFault == Init /\ [][NextFault]_vars

\* The program with errors in reading the channel.
NextChannel ==
    \/ Next
    \/ ReaderError
    \/ ReaderWake
    \/ SleepInterrupt

SpecChannel == Init /\ [][NextChannel]_vars

\* The program started with any object at the FIFO path.
NextAnyPath ==
    \/ Next
    \/ EnsureFifoFails
    \/ \E i \in AddIds : AddOpenFails(i)

SpecAnyPath == InitAnyPath /\ [][NextAnyPath]_vars

\* The program with entry files removed or emptied under it.
NextTamper ==
    \/ Next
    \/ ExternalDelete
    \/ ExternalTruncate

SpecTamper == Init /\ [][NextTamper]_vars

\* ---------------------------------------------------- helpers of the claims
\* The entry lines of a file, in file order.
Entries(f) == SelectSeq(f.items, LAMBDA it : it.k = "E")

\* The entry lines of all files that come from `add` call i.
LinesOf(i) ==
    UNION {{<<d, n>> : n \in {k \in DOMAIN files[d].items :
                                 /\ files[d].items[k].k = "E"
                                 /\ files[d].items[k].id = i}} : d \in Days}

StrictlyIncreasing(s) == \A a, b \in 1..Len(s) : a < b => s[a] < s[b]

RseqOf(s) == [n \in 1..Len(s) |-> s[n].rseq]

\* The lines of a channel buffer.
RECURSIVE LineCount(_)
LineCount(p) == IF p = <<>> THEN 0 ELSE 1 + LineCount(DropLine(p))

\* The size of a file up to and including its item n.
SizeUpTo(f, n) == f.base + ItemsSize(SubSeq(f.items, 1, n))

\* The items whose append left the file at or above the threshold.
AtOrAbove(f) ==
    {n \in DOMAIN f.items : f.items[n].k = "E" /\ SizeUpTo(f, n) >= SIZE_LIMIT}

\* The items whose append took the file from below the threshold to it.
Crossing(f) == {n \in AtOrAbove(f) : SizeUpTo(f, n - 1) < SIZE_LIMIT}

\* The fork_and_push calls made for the message with read number r.
CallsFor(r) == {n \in DOMAIN calls : calls[n].rseq = r}

\* push.sh processes spawned so far.
Spawned(cs) == Cardinality({n \in 1..Len(cs) : cs[n].spawned})

\* The daemon was started once and has not been interrupted.
Uninterrupted == starts = 1 /\ Listening

\* Nothing is in flight: every `add` has ended, channel and queue are empty
\* and the writer waits in q.get().
Quiescent ==
    /\ \A i \in AddIds : prod[i].pc \in {"idle"} \cup Ended
    /\ pipe = <<>>
    /\ q = <<>>
    /\ wpc = "get"

\* ------------------------------------------------------------------ claims
\* C1: every message whose trimmed text is not empty, submitted through the
\* channel, ends up as exactly one entry line carrying that text: its lines
\* are never more than one, each carries the whole trimmed text, and once
\* an uninterrupted daemon has drained channel and queue the line is there.
C1_OneLinePerMessage ==
    \A i \in AddIds :
        Strip(prod[i].msg) # <<>> =>
            /\ Cardinality(LinesOf(i)) <= 1
            /\ \A l \in LinesOf(i) :
                   files[l[1]].items[l[2]].txt = Strip(prod[i].msg)
            /\ (Uninterrupted /\ Quiescent /\ prod[i].pc = "added")
                   => Cardinality(LinesOf(i)) = 1

\* C2: the entry lines of every file are in the order the reader loop read
\* them from the channel, and so are the queue and the message in hand:
\* file entries, then the writer's message, then the queue, by read number.
C2_FifoOrder ==
    /\ StrictlyIncreasing(RseqOf(q))
    /\ \A d \in Days : StrictlyIncreasing(RseqOf(Entries(files[d])))
    /\ \A d \in Days : \A n \in DOMAIN files[d].items :
          files[d].items[n].k = "E" =>
             /\ \A k \in DOMAIN q : files[d].items[n].rseq < q[k].rseq
             /\ wpc \in {"append", "size"} =>
                    files[d].items[n].rseq <= cur.rseq
    /\ wpc \in {"append", "size"} =>
          \A k \in DOMAIN q : cur.rseq < q[k].rseq

\* Two `add` calls have entries in one file.
C2_Witness ==
    \E d \in Days : \E a, b \in DOMAIN files[d].items :
        /\ files[d].items[a].k = "E" /\ files[d].items[b].k = "E"
        /\ files[d].items[a].id # files[d].items[b].id

\* C3: when the writer takes up a non-empty message on a day other than the
\* one its md_path names, it switches md_path to the new day and that file
\* begins with its header before the append; the append then adds the
\* message to the file md_path names and touches no other file.
C3_Rollover ==
    /\ [][(wpc = "get" /\ wpc' = "append" /\ today # mdPath) =>
            /\ mdPath' = today
            /\ files'[today].ex
            /\ files'[today].items # <<>>
            /\ files'[today].items[1] = HeaderItem(today)
            /\ \A d \in Days : d # today => files'[d] = files[d]]_vars
    /\ [][(wpc = "append" /\ wpc' = "size") =>
            /\ mdPath' = mdPath
            /\ files'[mdPath].items =
                 Append(files[mdPath].items,
                        [k |-> "E", day |-> today, txt |-> cur.txt,
                         id |-> cur.id, rseq |-> cur.rseq])
            /\ \A d \in Days : d # mdPath => files'[d] = files[d]]_vars
    /\ [][(wpc = "append" /\ wpc' # "dead") => mdPath' = mdPath]_vars

\* One daemon wrote an entry on day 1 and, after midnight, one on day 2.
C3_Witness ==
    /\ starts = 1
    /\ Entries(files[1]) # <<>>
    /\ Entries(files[2]) # <<>>
    /\ mdPath = 2
    /\ files[2].items[1] = HeaderItem(2)

\* The step in which the writer finishes a message whose append took the
\* file from below SIZE_LIMIT to at or above it.
AfterCrossingAppend ==
    /\ wpc = "size" /\ wpc' = "get"
    /\ cur.pre < SIZE_LIMIT /\ cur.post >= SIZE_LIMIT

RunCrossedThreshold ==
    /\ Uninterrupted
    /\ Quiescent
    /\ today = 1
    /\ scriptExists
    /\ Size(files[1]) >= SIZE_LIMIT

\* C5 as claimed: such a run shows exactly one push.sh invocation in total,
\* with the arguments (repo_root, today's entry file).
C5_OnePushInTotal ==
    RunCrossedThreshold =>
        /\ Spawned(calls) = 1
        /\ calls[1].args = <<Repo, PathFor(1)>>

\* C5 amended: such a run shows exactly one push.sh invocation for the
\* append that crosses the threshold and one more for every later append,
\* each with the arguments (repo_root, today's entry file).
C5_OnePushPerAppendFromCrossing ==
    RunCrossedThreshold =>
        /\ \A n \in Crossing(files[1]) :
              Cardinality(CallsFor(files[1].items[n].rseq)) = 1
        /\ Cardinality(Crossing(files[1])) = 1
        /\ Len(calls) = Cardinality(AtOrAbove(files[1]))
        /\ \A n \in DOMAIN calls :
              /\ calls[n].spawned
              /\ calls[n].args = <<Repo, PathFor(1)>>
              /\ \E k \in AtOrAbove(files[1]) :
                    files[1].items[k].rseq = calls[n].rseq

\* Such a run has ended after appends beyond the crossing one.
C5_Witness == RunCrossedThreshold /\ Len(calls) >= 2

\* C6: an empty line taken from the queue changes no file, no md_path, makes
\* no fork_and_push call and leaves the writer as it was, even on a new day;
\* and no entry line without text is in any file.
C6_EmptyDiscarded ==
    /\ [][(/\ wpc = "get" /\ q # <<>> /\ Strip(Head(q).txt) = <<>>
           /\ q' = Tail(q) /\ rpc' = rpc) =>
             /\ files' = files
             /\ mdPath' = mdPath
             /\ calls' = calls
             /\ wpc' = wpc
             /\ cur' = cur]_vars
    /\ [](\A d \in Days : \A n \in DOMAIN files[d].items :
             files[d].items[n].k = "E" => Strip(files[d].items[n].txt) # <<>>)

\* An uninterrupted writer has taken the only line read so far, an empty
\* one, after midnight: no entry, no rollover, no header for the new day.
C6_Witness ==
    /\ Uninterrupted
    /\ nread = 1 /\ q = <<>> /\ wpc = "get"
    /\ \E i \in AddIds : prod[i].pc = "added" /\ Strip(prod[i].msg) = <<>>
    /\ today = 2 /\ mdPath = 1
    /\ ~files[2].ex
    /\ \A d \in Days : Entries(files[d]) = <<>>

\* C7: write_header_if_new changes nothing on a file that exists with
\* nonzero size, a second call changes nothing after a first, and every
\* file of nonzero size holds its header exactly once, as its first item.
C7_HeaderOnce ==
    \A d \in Days :
        /\ WriteHeaderIfNew(WriteHeaderIfNew(files, d), d)
              = WriteHeaderIfNew(files, d)
        /\ (files[d].ex /\ Size(files[d]) > 0) =>
              /\ WriteHeaderIfNew(files, d) = files
              /\ files[d].items[1] = HeaderItem(d)
              /\ \A n \in DOMAIN files[d].items :
                    files[d].items[n].k = "H" => n = 1

\* A second daemon has started on a day whose file already held entries.
C7_Witness ==
    /\ starts = 2
    /\ wpc = "get"
    /\ mdPath = today
    /\ Entries(files[today]) # <<>>
    /\ q = <<>> /\ nread = Len(Entries(files[today]))

\* C8 as claimed: an `add` invoked while no daemon is listening ends with
\* exit code 2 (add_note decides this before it opens anything, so the
\* process is at exit code 2 as soon as it has passed its check).
C8_AddWithoutDaemonExits2 ==
    [][\A i \in AddIds :
          (prod[i].pc = "idle" /\ prod'[i].pc # "idle" /\ ~Listening)
              => prod'[i].pc = "exit2"]_vars

\* C9 as claimed, in the form a finite run refutes: while one daemon serves
\* without interrupt, a line written to the channel leaves it only by being
\* read and enqueued (a line that is discarded is never read).
C9_NoLineDiscarded ==
    [][(Uninterrupted /\ Uninterrupted') =>
          \/ LineCount(pipe') >= LineCount(pipe)
          \/ /\ LineCount(pipe') = LineCount(pipe) - 1
             /\ nread' = nread + 1
             /\ Len(q') = Len(q) + 1]_vars

\* C10: an error in any step of an iteration leaves the writer alive at
\* q.get() and puts nothing back into the queue; the writer process is gone
\* only after an interrupt; a failed message is never in the queue or in the
\* writer's hands again, and one that failed before or in its append is in
\* no file.
C10_ErrorContained ==
    /\ [][errs' # errs =>
            /\ wpc' = "get"
            /\ Len(q') <= Len(q)
            /\ \A k \in DOMAIN q' : \E j \in DOMAIN q : q'[k] = q[j]]_vars
    /\ [](wpc = "dead" => rpc \in {"joining", "off"})
    /\ [](\A n \in DOMAIN errs :
             /\ \A k \in DOMAIN q : q[k].rseq # errs[n].rseq
             /\ cur.rseq # errs[n].rseq
             /\ errs[n].step # "size" =>
                  \A d \in Days : \A k \in DOMAIN files[d].items :
                      files[d].items[k].rseq # errs[n].rseq)

\* After a failed append the same daemon has appended a later message.
C10_Witness ==
    /\ Uninterrupted
    /\ errs # <<>>
    /\ errs[1].step = "append"
    /\ \E d \in Days : \E k \in DOMAIN files[d].items :
          files[d].items[k].k = "E" /\ files[d].items[k].rseq > errs[1].rseq

\* A line of `add` call i is in the channel's buffer.
InChannel(i) == \E k \in DOMAIN pipe : pipe[k].id = i

\* A line of `add` call i has been read from the channel: it is in the
\* queue, in the writer's hands or in a file.
WasRead(i) ==
    \/ \E k \in DOMAIN q : q[k].id = i
    \/ wpc \in {"append", "size"} /\ cur.id = i
    \/ LinesOf(i) # {}

\* C11 as claimed: a read error leaves the daemon running, with the writer
\* and the queue as they were and the reader loop pausing; from the pause
\* the loop goes on to open the channel again; and while that daemon is not
\* interrupted, the line of every `add` call that started after the error
\* and has printed "Added." is in the channel or has been read and enqueued.
C11_ChannelErrorRecovery ==
    /\ [][Len(rerrs') > Len(rerrs) =>
            rpc' = "sleep" /\ wpc' = wpc /\ q' = q /\ starts' = starts]_vars
    /\ [][(rpc = "sleep" /\ rpc' # "sleep") => rpc' \in {"closed", "off"}]_vars
    /\ [](\A n \in DOMAIN rerrs : \A i \in AddIds :
             (/\ i > rerrs[n].started
              /\ prod[i].pc = "added"
              /\ Strip(prod[i].msg) # <<>>
              /\ starts = 1
              /\ rpc \notin {"joining", "off"})
                => InChannel(i) \/ WasRead(i))

\* C12: a fork_and_push call leaves the writer at q.get() with the queue
\* and the files as they were, whether it spawned a child or, push.sh being
\* absent, spawned nothing; and with every child spawned so far still
\* running, a writer that is alive and has a message in hand or in the
\* queue always has its next step to take.
C12_FireAndForget ==
    /\ [][calls' # calls =>
            /\ wpc' = "get"
            /\ q' = q /\ files' = files
            /\ calls'[Len(calls')].spawned = scriptExists]_vars
    /\ []((wpc # "dead" /\ (q # <<>> \/ wpc # "get")) =>
             ENABLED (WriterInit \/ WriterGet \/ WriterAppend \/ WriterSize))

\* With the child of an earlier push still running and never waited for,
\* the same writer has appended a later message.
C12_Witness ==
    /\ Uninterrupted
    /\ \E n \in DOMAIN calls : \E d \in Days : \E k \in DOMAIN files[d].items :
          /\ calls[n].spawned
          /\ files[d].items[k].k = "E"
          /\ files[d].items[k].rseq > calls[n].rseq

\* An item of the queue as it was at the interrupt has an entry line.
PendingAppended ==
    \E k \in DOMAIN pending : \E d \in Days : \E n \in DOMAIN files[d].items :
        /\ files[d].items[n].k = "E"
        /\ files[d].items[n].rseq = pending[k].rseq

\* C13 as claimed: of the items that were in the queue when the interrupt
\* was handled, none is appended to an entry file afterwards.
C13_QueueDropped == ~PendingAppended

\* C13 amended: an interrupt takes the reader loop to p.join with the queue
\* and the files as they are, and from there the main process exits with
\* the writer dead and the queue gone; a dead writer changes no file, so
\* when the interrupt reached the writer too none of the queued items is
\* appended; what is in the queue when the main process exits is dropped.
C13_DroppedAtExit ==
    /\ [][(Listening /\ ~Listening') =>
            /\ rpc' = "joining"
            /\ pending' = q /\ q' = q /\ files' = files]_vars
    /\ [][(rpc = "joining" /\ rpc' # "joining") =>
            rpc' = "off" /\ wpc' = "dead" /\ q' = <<>>]_vars
    /\ [][wpc = "dead" => files' = files /\ calls' = calls]_vars
    /\ []((rpc = "joining" /\ wpc = "dead") => ~PendingAppended)

\* The interrupt reached the writer while a message that is not empty was
\* waiting in the queue.
C13_Witness ==
    /\ rpc = "joining"
    /\ wpc = "dead"
    /\ q = pending
    /\ \E k \in DOMAIN pending : Strip(pending[k].txt) # <<>>

\* C14 as claimed: whatever the path held, when ensure_fifo is done the path
\* holds a FIFO and the daemon goes on to listen; a FIFO that was there is
\* left as it was, with what its buffer holds; and a second ensure_fifo
\* would change nothing.
C14_EnsureFifoReplaces ==
    [][(rpc = "ensure" /\ rpc' # "ensure") =>
          /\ node' = "fifo"
          /\ rpc' = "closed"
          /\ node = "fifo" => (node' = node /\ pipe' = pipe)
          /\ EnsureFifoResult(node') = node']_vars

\* The fork_and_push calls made for the file of day d.
CallsForFile(d) == {n \in DOMAIN calls : calls[n].args = PushArgs(Repo, d)}

C16_SelfHealing ==
    /\ [][(wpc = "get" /\ wpc' = "append"
           /\ today = mdPath /\ ~files[mdPath].ex) =>
             files'[mdPath] =
                [ex |-> TRUE, base |-> 0, items |-> <<HeaderItem(mdPath)>>]]_vars
    /\ [][(wpc = "append" /\ wpc' = "size" /\ ~files[mdPath].ex) =>
             files'[mdPath].items =
                <<HeaderItem(mdPath), EntryItem(cur, today)>>]_vars

\* C17 as claimed: in every state, a file that holds an entry line begins
\* with the header of its day, and the writer appends only to a file that
\* begins with its header.
C17_HeaderBeforeEntries ==
    /\ [](\A d \in Days :
             Entries(files[d]) # <<>> => files[d].items[1] = HeaderItem(d))
    /\ [][(wpc = "append" /\ wpc' = "size") =>
             /\ files[mdPath].ex
             /\ files[mdPath].items # <<>>
             /\ files[mdPath].items[1] = HeaderItem(mdPath)]_vars

\* C18: when `add` call a had ended before `add` call b began, every entry
\* line of a that is in the same file as an entry line of b stands before
\* it.
C18_SequentialOrder ==
    \A a, b \in AddIds :
        a \in prod[b].prior =>
            \A la \in LinesOf(a), lb \in LinesOf(b) :
                la[1] = lb[1] => la[2] < lb[2]

\* Two `add` calls, the second begun after the first had printed "Added.",
\* both with text, have their entry lines in one file.
C18_Witness ==
    \E a, b \in AddIds :
        /\ a \in prod[b].prior
        /\ prod[a].pc = "added" /\ prod[b].pc = "added"
        /\ Strip(prod[a].msg) # <<>> /\ Strip(prod[b].msg) # <<>>
        /\ \E la \in LinesOf(a), lb \in LinesOf(b) : la[1] = lb[1]

\* C19 as claimed: the clock reading behind the HH:MM of every entry line
\* falls on the day of the file the line is in.
C19_TimestampDayIsFileDay ==
    \A d \in Days : \A n \in DOMAIN files[d].items :
        files[d].items[n].k = "E" => files[d].items[n].day = d

\* C20: the day md_path names never goes back; a step changes no file but
\* the one md_path names after it; so once md_path has moved on from a day
\* no step writes, truncates or re-headers that day's file.
C20_PastDaysFrozen ==
    /\ [][mdPath' >= mdPath]_vars
    /\ [][\A d \in Days : d # mdPath' => files'[d] = files[d]]_vars
    /\ [][\A d \in Days : d < mdPath => files'[d] = files[d]]_vars

\* One daemon appended on day 1, rolled over, and has since appended twice
\* to the file of day 2.
C20_Witness ==
    /\ starts = 1
    /\ mdPath = 2
    /\ Entries(files[1]) # <<>>
    /\ Len(Entries(files[2])) >= 2
====
